---- MODULE Spec2Model ----
(***************************************************************************)
(* Model of internal/processing/workers/util.go of GoToSocial: the account *)
(* statistics counters (increment*/decrement*Count), the status deletion   *)
(* cascade (wipeStatus), the follower migration (redirectFollowers) and the *)
(* issuance of interaction approvals (approveFave, approveReply,           *)
(* approveAnnounce).                                                       *)
(***************************************************************************)
EXTENDS Integers, Sequences, FiniteSets, TLC

(***************************************************************************)
(* Bounds of the model.                                                    *)
(***************************************************************************)
MaxInit == 1
MaxCalls == 2
MaxAtt == 2
MaxMentions == 2
MaxBoosts == 2
MaxFails == 2
MaxApprovals == 3
MaxRetries == 1

VARIABLES
    \* ---- account statistics counters ----
    acct,       \* in-memory Account object -> the account it is
    stored,     \* account -> stored AccountStats row
    mem,        \* in-memory Account object -> its Stats (NoStats when nil)
    held,       \* ProcessingLocks: lock key -> holder
    pc,         \* worker -> position inside a counter operation
    cur,        \* worker -> the call it runs (operation, Account object, result)
    initial,    \* the counter value every stored counter started from (history)
    hist,       \* account -> counter -> what the returned calls did (history)
    used,       \* account -> which in-memory Accounts the calls came with (history)
    ncalls      \* number of calls made so far

VARIABLES
    \* ---- wipeStatus ----
    wst,        \* statusToDelete and deleteAttachments, the arguments of the call
    db,         \* the records of the store, media and timelines the cascade touches
    wpc,        \* position of the call
    wi,         \* index of the loop the call is in
    wboosts,    \* the boosts GetStatusBoosts returned
    wlog,       \* the collaborator calls made so far, in order, with their outcome
    werrs,      \* errs, the gtserror.MultiError of the call
    wret,       \* the returned error
    nfail       \* number of collaborator calls that failed so far

VARIABLES
    \* ---- redirectFollowers ----
    follows,    \* the follows in the store
    follows0,   \* the follows in the store when the call started (history)
    rpc,        \* position of the call
    rfollowers, \* the follows GetAccountLocalFollowers returned
    ri,         \* index of the follow the loop is at
    rlog,       \* the collaborator calls made so far, in order, with their result
    rret        \* the returned bool

VARIABLES
    \* ---- the caller of redirectFollowers ----
    rtries,     \* number of runs that returned false and were retried
    rabort      \* the calls at which those runs stopped (history)

VARIABLES
    \* ---- approveFave, approveReply, approveAnnounce ----
    approvals,  \* the InteractionApproval records in the store
    subjects,   \* stored row of each fave / status: pending_approval, approved_by_uri
    apc,        \* worker -> position inside an approve call
    acall,      \* worker -> the call it runs or ran last (subject, approval, result)
    nid,        \* number of IDs id.NewULID has generated
    adone       \* the calls that returned, in order of return (history)

counterVars == <<acct, stored, mem, held, pc, cur, initial, hist, used, ncalls>>
wipeVars == <<wst, db, wpc, wi, wboosts, wlog, werrs, wret, nfail>>

redirectVars == <<follows, follows0, rpc, rfollowers, ri, rlog, rret>>

callerVars == <<rtries, rabort>>
approveVars == <<approvals, subjects, apc, acall, nid, adone>>

outsideCounter == <<wipeVars, redirectVars, callerVars, approveVars>>
outsideWipe == <<counterVars, redirectVars, callerVars, approveVars>>
outsideRedirect == <<counterVars, wipeVars, callerVars, approveVars>>
outsideApprove == <<counterVars, wipeVars, redirectVars, callerVars>>

vars == <<counterVars, wipeVars, redirectVars, callerVars, approveVars>>

(***************************************************************************)
(* Account statistics counters.                                            *)
(***************************************************************************)
Workers == {"w1", "w2"}
Accts == {"a1", "a2"}
Objs == {"o1", "o2"}
None == "none"

\* The account an in-memory Account object is (two objects may be copies of
\* one account).
ObjAcct(o) == acct[o]

\* account.URI of an in-memory Account
URI(o) == ObjAcct(o)

Fields == {"statuses_count", "followers_count", "following_count", "follow_requests_count"}
StatCols == Fields \cup {"last_status_at"}

IncOps == {"incrementStatusesCount", "incrementFollowersCount",
           "incrementFollowingCount", "incrementFollowRequestsCount"}
DecOps == {"decrementStatusesCount", "decrementFollowersCount",
           "decrementFollowingCount", "decrementFollowRequestsCount"}
Ops == IncOps \cup DecOps

OpField(op) ==
    CASE op \in {"incrementStatusesCount", "decrementStatusesCount"} -> "statuses_count"
      [] op \in {"incrementFollowersCount", "decrementFollowersCount"} -> "followers_count"
      [] op \in {"incrementFollowingCount", "decrementFollowingCount"} -> "following_count"
      [] OTHER -> "follow_requests_count"

\* last_status_at is modelled by two times: that of the stored row at the
\* start and status.CreatedAt of the status a call comes with.
TimeZero == "t0"
CreatedAt == "t1"

Row(n) == [c \in StatCols |-> IF c = "last_status_at" THEN TimeZero ELSE n]

\* account.Stats == nil
NoStats == Row(-1)

NoCall == [op |-> "none", obj |-> "none", ret |-> "none", read |-> 0,
           rowBefore |-> NoStats]

\* The key an operation on the in-memory Account o locks on.
LockKeyPerObject(o) == o

LockKeyGlobal(o) == "a1"

LockKey(o) == URI(o)

Keys == Accts \cup Objs

\* ProcessingLocks.Lock(key) returns once no one else holds the key.
LockFree(k) == held[k] = None

\* A worker calls one of the eight operations with an in-memory Account. The
\* call starts with ProcessingLocks.Lock(account.URI): it takes the lock when
\* it is free, and waits for it otherwise.
Call(w) ==
    /\ pc[w] = "idle"
    /\ ncalls < MaxCalls
    /\ ncalls' = ncalls + 1
    /\ \E op \in Ops, o \in Objs :
         /\ cur' = [cur EXCEPT ![w] = [NoCall EXCEPT !.op = op, !.obj = o]]
         /\ used' = [used EXCEPT ![ObjAcct(o)] =
                        [@ EXCEPT !.objs = @ \cup {o}]]
         /\ IF LockFree(LockKey(o))
              THEN /\ held' = [held EXCEPT ![LockKey(o)] = w]
                   /\ pc' = [pc EXCEPT ![w] = "populate"]
              ELSE /\ pc' = [pc EXCEPT ![w] = "lock"]
                   /\ UNCHANGED held
    /\ UNCHANGED <<acct, stored, mem, initial, hist, outsideCounter>>

\* A waiting worker gets the lock.
Lock(w) ==
    /\ pc[w] = "lock"
    /\ LockFree(LockKey(cur[w].obj))
    /\ held' = [held EXCEPT ![LockKey(cur[w].obj)] = w]
    /\ pc' = [pc EXCEPT ![w] = "populate"]
    /\ UNCHANGED <<acct, stored, mem, cur, initial, hist, used, ncalls, outsideCounter>>

\* "Clamp to 0 to avoid funny business."
NoClamp(v) == v

Clamp(v) == IF v < 0 THEN 0 ELSE v

Max0(v) == IF v < 0 THEN 0 ELSE v

OpDelta(op) == IF op \in IncOps THEN 1 ELSE -1

\* History of the calls on one counter: net is increments - decrements of
\* the successful calls, fold is the value they give when applied one after
\* the other in lock order, n their number, failed whether a call failed.
NoHist == [net |-> 0, fold |-> initial, n |-> 0, failed |-> FALSE]

Record(w, ok) ==
    LET a == ObjAcct(cur[w].obj)
        f == OpField(cur[w].op)
        h == hist[a][f]
    IN  [hist EXCEPT ![a][f] =
            IF ok THEN [h EXCEPT !.net = @ + OpDelta(cur[w].op),
                                 !.fold = Max0(@ + OpDelta(cur[w].op)),
                                 !.n = @ + 1]
                  ELSE [h EXCEPT !.failed = TRUE]]

\* DB.PopulateAccountStats: fetch the Stats of the Account lazily, when the
\* in-memory Account has none yet.
Populated(o) == IF mem[o] = NoStats THEN stored[ObjAcct(o)] ELSE mem[o]

PopulateAccountStats(w) ==
    /\ pc[w] = "populate"
    /\ \/ /\ mem' = [mem EXCEPT ![cur[w].obj] = Populated(cur[w].obj)]
          /\ used' = [used EXCEPT ![ObjAcct(cur[w].obj)].pre = @ \/ mem[cur[w].obj] # NoStats]
          /\ pc' = [pc EXCEPT ![w] = "update"]
          /\ UNCHANGED <<cur, hist>>
       \/ /\ cur' = [cur EXCEPT ![w].ret = "err"]
          /\ hist' = Record(w, FALSE)
          /\ pc' = [pc EXCEPT ![w] = "unlock"]
          /\ UNCHANGED <<mem, used>>
    /\ UNCHANGED <<acct, stored, held, initial, ncalls, outsideCounter>>

\* DB.UpdateAccountStats(stats, columns...): writes the named columns only.
UpdateAccountStats(a, stats, cols) ==
    [stored EXCEPT ![a] = [c \in StatCols |-> IF c \in cols THEN stats[c] ELSE stored[a][c]]]

\* The shared tail of the eight operations: the Stats of the Account are
\* changed in memory, then the named columns are written; the update may fail.
Apply(w, stats, cols) ==
    LET o == cur[w].obj
        a == ObjAcct(o)
    IN  /\ mem' = [mem EXCEPT ![o] = stats]
        /\ \E ok \in BOOLEAN :
             /\ stored' = IF ok THEN UpdateAccountStats(a, stats, cols) ELSE stored
             /\ cur' = [cur EXCEPT ![w].ret = IF ok THEN "nil" ELSE "err",
                                   ![w].read = mem[o][OpField(cur[w].op)],
                                   ![w].rowBefore = stored[a]]
             /\ hist' = Record(w, ok)
        /\ pc' = [pc EXCEPT ![w] = "unlock"]
        /\ UNCHANGED <<acct, held, initial, used, ncalls, outsideCounter>>

Incremented(stats, f) == [stats EXCEPT ![f] = @ + 1]
Decremented(stats, f) == [stats EXCEPT ![f] = Clamp(@ - 1)]

AtUpdate(w, op) == pc[w] = "update" /\ cur[w].op = op

incrementStatusesCount(w) ==
    /\ AtUpdate(w, "incrementStatusesCount")
    /\ Apply(w, [Incremented(mem[cur[w].obj], "statuses_count")
                    EXCEPT !["last_status_at"] = CreatedAt],
             {"statuses_count", "last_status_at"})

decrementStatusesCount(w) ==
    /\ AtUpdate(w, "decrementStatusesCount")
    /\ Apply(w, Decremented(mem[cur[w].obj], "statuses_count"), {"statuses_count"})

\* incrementFollowersCount writing the whole row.
incrementFollowersCountAllColumns(w) ==
    /\ AtUpdate(w, "incrementFollowersCount")
    /\ Apply(w, Incremented(mem[cur[w].obj], "followers_count"), StatCols)

incrementFollowersCount(w) ==
    /\ AtUpdate(w, "incrementFollowersCount")
    /\ Apply(w, Incremented(mem[cur[w].obj], "followers_count"), {"followers_count"})

decrementFollowersCount(w) ==
    /\ AtUpdate(w, "decrementFollowersCount")
    /\ Apply(w, Decremented(mem[cur[w].obj], "followers_count"), {"followers_count"})

incrementFollowingCount(w) ==
    /\ AtUpdate(w, "incrementFollowingCount")
    /\ Apply(w, Incremented(mem[cur[w].obj], "following_count"), {"following_count"})

decrementFollowingCount(w) ==
    /\ AtUpdate(w, "decrementFollowingCount")
    /\ Apply(w, Decremented(mem[cur[w].obj], "following_count"), {"following_count"})

incrementFollowRequestsCount(w) ==
    /\ AtUpdate(w, "incrementFollowRequestsCount")
    /\ Apply(w, Incremented(mem[cur[w].obj], "follow_requests_count"),
             {"follow_requests_count"})

decrementFollowRequestsCount(w) ==
    /\ AtUpdate(w, "decrementFollowRequestsCount")
    /\ Apply(w, Decremented(mem[cur[w].obj], "follow_requests_count"),
             {"follow_requests_count"})

\* An unlock that the error returns skip.
UnlockOnSuccess(w) ==
    /\ pc[w] = "unlock"
    /\ held' = IF cur[w].ret = "nil" THEN [held EXCEPT ![LockKey(cur[w].obj)] = None] ELSE held
    /\ pc' = [pc EXCEPT ![w] = "idle"]
    /\ cur' = [cur EXCEPT ![w] = NoCall]
    /\ UNCHANGED <<acct, stored, mem, initial, hist, used, ncalls, outsideCounter>>

\* The deferred unlock() runs on every return path; the call returns.
Unlock(w) ==
    /\ pc[w] = "unlock"
    /\ held' = [held EXCEPT ![LockKey(cur[w].obj)] = None]
    /\ pc' = [pc EXCEPT ![w] = "idle"]
    /\ cur' = [cur EXCEPT ![w] = NoCall]
    /\ UNCHANGED <<acct, stored, mem, initial, hist, used, ncalls, outsideCounter>>

(***************************************************************************)
(* wipeStatus.                                                             *)
(***************************************************************************)
\* IDs: the status to delete is status 0, its boosts are statuses 1..boosts,
\* its attachments 1..atts, its mentions 1..mentions.
StatusID == 0
AttachmentIDs(st) == [i \in 1..st.atts |-> i]
MentionIDs(st) == [i \in 1..st.mentions |-> i]
PollID(st) == IF st.poll THEN "poll" ELSE ""

NoStatus == [atts |-> 0, mentions |-> 0, poll |-> FALSE, boosts |-> 0, del |-> FALSE]
NoDB == [media |-> <<>>, mentions |-> {}, notifications |-> FALSE, bookmarks |-> FALSE,
         faves |-> FALSE, poll |-> FALSE, votes |-> FALSE, task |-> FALSE,
         statuses |-> {}, timeline |-> {}, conversations |-> FALSE]

\* The records that exist for a status before it is wiped.
DBFor(st) ==
    [media |-> [i \in 1..st.atts |-> "attached"],
     mentions |-> 1..st.mentions,
     notifications |-> TRUE, bookmarks |-> TRUE, faves |-> TRUE,
     poll |-> st.poll, votes |-> st.poll, task |-> st.poll,
     statuses |-> 0..st.boosts, timeline |-> 0..st.boosts,
     conversations |-> TRUE]

\* The position the call is at once it gets to position p of the code with
\* loop index i: loops over nothing and the poll block of a status without
\* poll are passed over. nb is the number of boosts fetched.
\* The same, with a boost loop that leaves its last element out.
PositionOffByOne(p, i, nb) ==
    IF p = "attachments" /\ i > wst.atts
      THEN IF wst.mentions = 0 THEN <<"notifications", 0>> ELSE <<"mentions", 1>>
    ELSE IF p = "mentions" /\ i > wst.mentions THEN <<"notifications", 0>>
    ELSE IF p = "poll" /\ PollID(wst) = "" THEN <<"getBoosts", 0>>
    ELSE IF p = "boostTimeline" /\ i >= nb THEN <<"timeline", 0>>
    ELSE <<p, i>>

Position(p, i, nb) ==
    IF p = "attachments" /\ i > wst.atts
      THEN IF wst.mentions = 0 THEN <<"notifications", 0>> ELSE <<"mentions", 1>>
    ELSE IF p = "mentions" /\ i > wst.mentions THEN <<"notifications", 0>>
    ELSE IF p = "poll" /\ PollID(wst) = "" THEN <<"getBoosts", 0>>
    ELSE IF p = "boostTimeline" /\ i > nb THEN <<"timeline", 0>>
    ELSE <<p, i>>

\* A cascade that returns at the first failure.
GotoFailFast(p, i, nb) ==
    IF werrs' # werrs
      THEN wpc' = "done" /\ wi' = 0
      ELSE wpc' = Position(p, i, nb)[1] /\ wi' = Position(p, i, nb)[2]

\* The call goes on at position p with loop index i, whatever the outcome
\* of the collaborator call before.
Goto(p, i, nb) ==
    /\ wpc' = Position(p, i, nb)[1]
    /\ wi' = Position(p, i, nb)[2]

\* errs.Appendf(note, err)
Appendf(errs, note) == Append(errs, note)

\* gtserror.MultiError.Combine: nil when nothing was appended.
Combine(errs) == IF errs = <<>> THEN "nil" ELSE "err"

\* One collaborator call: it succeeds, with its effect on the records, or
\* fails, leaving them as they are; errsFail is errs after a failure.
Collab(call, arg, dbOk, errsFail) ==
    \E ok \in BOOLEAN :
        /\ ~ok => nfail < MaxFails
        /\ nfail' = IF ok THEN nfail ELSE nfail + 1
        /\ wlog' = Append(wlog, [call |-> call, arg |-> arg, ok |-> ok])
        /\ db' = IF ok THEN dbOk ELSE db
        /\ werrs' = IF ok THEN werrs ELSE errsFail
        /\ UNCHANGED outsideWipe

mediaDelete ==
    /\ wpc = "attachments" /\ wst.del
    /\ Collab("media.Delete", AttachmentIDs(wst)[wi],
              [db EXCEPT !.media[AttachmentIDs(wst)[wi]] = "deleted"],
              Appendf(werrs, "error deleting media"))
    /\ Goto("attachments", wi + 1, 0)
    /\ UNCHANGED <<wst, wboosts, wret>>

\* Detaching that deletes the media all the same.
mediaUnattachDeletes ==
    /\ wpc = "attachments" /\ ~wst.del
    /\ Collab("media.Delete", AttachmentIDs(wst)[wi],
              [db EXCEPT !.media[AttachmentIDs(wst)[wi]] = "deleted"],
              Appendf(werrs, "error deleting media"))
    /\ Goto("attachments", wi + 1, 0)
    /\ UNCHANGED <<wst, wboosts, wret>>

mediaUnattach ==
    /\ wpc = "attachments" /\ ~wst.del
    /\ Collab("media.Unattach", AttachmentIDs(wst)[wi],
              [db EXCEPT !.media[AttachmentIDs(wst)[wi]] = "unattached"],
              Appendf(werrs, "error unattaching media"))
    /\ Goto("attachments", wi + 1, 0)
    /\ UNCHANGED <<wst, wboosts, wret>>

DeleteMentionByID ==
    /\ wpc = "mentions"
    /\ Collab("DeleteMentionByID", MentionIDs(wst)[wi],
              [db EXCEPT !.mentions = @ \ {MentionIDs(wst)[wi]}],
              Appendf(werrs, "error deleting status mention"))
    /\ Goto("mentions", wi + 1, 0)
    /\ UNCHANGED <<wst, wboosts, wret>>

DeleteNotificationsForStatus ==
    /\ wpc = "notifications"
    /\ Collab("DeleteNotificationsForStatus", StatusID,
              [db EXCEPT !.notifications = FALSE],
              Appendf(werrs, "error deleting status notifications"))
    /\ Goto("bookmarks", 0, 0)
    /\ UNCHANGED <<wst, wboosts, wret>>

DeleteStatusBookmarksForStatus ==
    /\ wpc = "bookmarks"
    /\ Collab("DeleteStatusBookmarksForStatus", StatusID,
              [db EXCEPT !.bookmarks = FALSE],
              Appendf(werrs, "error deleting status bookmarks"))
    /\ Goto("faves", 0, 0)
    /\ UNCHANGED <<wst, wboosts, wret>>

DeleteStatusFavesForStatus ==
    /\ wpc = "faves"
    /\ Collab("DeleteStatusFavesForStatus", StatusID,
              [db EXCEPT !.faves = FALSE],
              Appendf(werrs, "error deleting status faves"))
    /\ Goto("poll", 0, 0)
    /\ UNCHANGED <<wst, wboosts, wret>>

DeletePollByID ==
    /\ wpc = "poll"
    /\ Collab("DeletePollByID", PollID(wst),
              [db EXCEPT !.poll = FALSE],
              Appendf(werrs, "error deleting status poll"))
    /\ Goto("votes", 0, 0)
    /\ UNCHANGED <<wst, wboosts, wret>>

DeletePollVotes ==
    /\ wpc = "votes"
    /\ Collab("DeletePollVotes", PollID(wst),
              [db EXCEPT !.votes = FALSE],
              Appendf(werrs, "error deleting status poll votes"))
    /\ Goto("cancel", 0, 0)
    /\ UNCHANGED <<wst, wboosts, wret>>

\* A cancellation whose failure is reported like the others.
SchedulerCancelReported ==
    /\ wpc = "cancel"
    /\ Collab("Scheduler.Cancel", PollID(wst), [db EXCEPT !.task = FALSE],
              Appendf(werrs, "error cancelling poll expiry"))
    /\ Goto("getBoosts", 0, 0)
    /\ UNCHANGED <<wst, wboosts, wret>>

\* _ = Scheduler.Cancel(pollID): the result is dropped.
SchedulerCancel ==
    /\ wpc = "cancel"
    /\ Collab("Scheduler.Cancel", PollID(wst), [db EXCEPT !.task = FALSE], werrs)
    /\ Goto("getBoosts", 0, 0)
    /\ UNCHANGED <<wst, wboosts, wret>>

\* The boosts of the status that are in the store, as GetStatusBoosts
\* returns them; none are returned with an error.
BoostsOf(n) == [i \in 1..n |-> i]

GetStatusBoosts ==
    /\ wpc = "getBoosts"
    /\ Collab("GetStatusBoosts", StatusID, db,
              Appendf(werrs, "error fetching status boosts"))
    /\ wboosts' = IF werrs' = werrs THEN BoostsOf(wst.boosts) ELSE <<>>
    /\ Goto("boostTimeline", 1, Len(wboosts'))
    /\ UNCHANGED <<wst, wret>>

\* A boost loop that deletes the boost record where it should remove the
\* boost from the timelines.
boostDeletedBeforeTimelines ==
    /\ wpc = "boostTimeline"
    /\ Collab("DeleteStatusByID", wboosts[wi],
              [db EXCEPT !.statuses = @ \ {wboosts[wi]}],
              Appendf(werrs, "error deleting boost"))
    /\ Goto("boostDelete", wi, Len(wboosts))
    /\ UNCHANGED <<wst, wboosts, wret>>

boostDeleteFromTimelines ==
    /\ wpc = "boostTimeline"
    /\ Collab("deleteStatusFromTimelines", wboosts[wi],
              [db EXCEPT !.timeline = @ \ {wboosts[wi]}],
              Appendf(werrs, "error deleting boost from timelines"))
    /\ Goto("boostDelete", wi, Len(wboosts))
    /\ UNCHANGED <<wst, wboosts, wret>>

boostDeleteStatusByID ==
    /\ wpc = "boostDelete"
    /\ Collab("DeleteStatusByID", wboosts[wi],
              [db EXCEPT !.statuses = @ \ {wboosts[wi]}],
              Appendf(werrs, "error deleting boost"))
    /\ Goto("boostTimeline", wi + 1, Len(wboosts))
    /\ UNCHANGED <<wst, wboosts, wret>>

deleteStatusFromTimelines ==
    /\ wpc = "timeline"
    /\ Collab("deleteStatusFromTimelines", StatusID,
              [db EXCEPT !.timeline = @ \ {StatusID}],
              Appendf(werrs, "error deleting status from timelines"))
    /\ Goto("conversations", 0, 0)
    /\ UNCHANGED <<wst, wboosts, wret>>

DeleteStatusFromConversations ==
    /\ wpc = "conversations"
    /\ Collab("DeleteStatusFromConversations", StatusID,
              [db EXCEPT !.conversations = FALSE],
              Appendf(werrs, "error deleting status from conversations"))
    /\ Goto("status", 0, 0)
    /\ UNCHANGED <<wst, wboosts, wret>>

\* "finally, delete the status itself", and return errs.Combine().
DeleteStatusByID ==
    /\ wpc = "status"
    /\ Collab("DeleteStatusByID", StatusID,
              [db EXCEPT !.statuses = @ \ {StatusID}],
              Appendf(werrs, "error deleting status"))
    /\ wret' = Combine(werrs')
    /\ Goto("done", 0, 0)
    /\ UNCHANGED <<wst, wboosts>>

\* No wipeStatus call is made.
WipeOff ==
    /\ wst = NoStatus /\ db = NoDB /\ wpc = "off" /\ wi = 0 /\ wboosts = <<>>
    /\ wlog = <<>> /\ werrs = <<>> /\ wret = "none" /\ nfail = 0

Statuses ==
    [atts : 0..MaxAtt, mentions : 0..MaxMentions, poll : BOOLEAN,
     boosts : 0..MaxBoosts, del : BOOLEAN]

\* wipeStatus(ctx, statusToDelete, deleteAttachments) is called.
WipeInit ==
    /\ wst \in Statuses
    /\ db = DBFor(wst)
    /\ wpc = Position("attachments", 1, 0)[1]
    /\ wi = Position("attachments", 1, 0)[2]
    /\ wboosts = <<>> /\ wlog = <<>> /\ werrs = <<>> /\ wret = "none" /\ nfail = 0

wipeStatus ==
    \/ mediaDelete
    \/ mediaUnattach
    \/ DeleteMentionByID
    \/ DeleteNotificationsForStatus
    \/ DeleteStatusBookmarksForStatus
    \/ DeleteStatusFavesForStatus
    \/ DeletePollByID
    \/ DeletePollVotes
    \/ SchedulerCancel
    \/ GetStatusBoosts
    \/ boostDeleteFromTimelines
    \/ boostDeleteStatusByID
    \/ deleteStatusFromTimelines
    \/ DeleteStatusFromConversations
    \/ DeleteStatusByID

(***************************************************************************)
(* redirectFollowers.                                                      *)
(***************************************************************************)
\* originAcct is A, targetAcct is B; B, F1 and F2 are local accounts, R is a
\* remote one.
Origin == "A"
Target == "B"
Local == {"B", "F1", "F2"}

NewFollowID(fs) ==
    LET ids == {f.id : f \in fs}
    IN  IF ids = {} THEN 1 ELSE 1 + CHOOSE m \in ids : \A n \in ids : n <= m

\* A FollowCreate that makes a new follow whether one exists or not.
CreatedAnew(fs, from, to, reblogs, notify) ==
    fs \cup {[id |-> NewFollowID(fs), from |-> from, to |-> to,
              reblogs |-> reblogs, notify |-> notify]}

\* account.FollowCreate(follower, {ID: to, Reblogs, Notify}): a new follow, or
\* the existing follow of the same account with updated preferences.
Created(fs, from, to, reblogs, notify) ==
    IF \E f \in fs : f.from = from /\ f.to = to
      THEN {IF f.from = from /\ f.to = to
              THEN [f EXCEPT !.reblogs = reblogs, !.notify = notify] ELSE f : f \in fs}
      ELSE fs \cup {[id |-> NewFollowID(fs), from |-> from, to |-> to,
                     reblogs |-> reblogs, notify |-> notify]}

\* account.FollowRemove(follower, targetID)
Removed(fs, from, to) == {f \in fs : ~(f.from = from /\ f.to = to)}

\* GetAccountLocalFollowers(originAcct.ID): the follows of local accounts
\* that target the origin.
LocalFollowers(fs) == {f \in fs : f.to = Origin /\ f.from \in Local}

Orderings(S) ==
    {q \in [1..Cardinality(S) -> S] : \A i, j \in 1..Cardinality(S) : q[i] = q[j] => i = j}

\* "if err != nil && !errors.Is(err, db.ErrNoEntries)" and the "if err != nil"
\* of the other calls: the results the call returns false on.
FatalNever(res) == FALSE

Fatal(res) == res = "err"

\* "if follow.AccountID != targetAcct.ID": the new follow would not be a
\* self follow.
NeedsCreateAlways(follow) == TRUE

NeedsCreate(follow) == follow.from # Target

Logged(call, from, to, res) ==
    rlog' = Append(rlog, [call |-> call, from |-> from, to |-> to, res |-> res])

ReturnFalse == rpc' = "done" /\ rret' = "false" /\ UNCHANGED <<rfollowers, ri>>

\* The loop goes to the i-th follow of list, or returns true after the last.
LoopAt(list, i) ==
    /\ rfollowers' = list
    /\ IF i > Len(list)
         THEN rpc' = "done" /\ rret' = "true" /\ ri' = ri
         ELSE rpc' = "lookup" /\ rret' = rret /\ ri' = i

GetAccountLocalFollowers ==
    /\ rpc = "start"
    /\ \E res \in {"ok", "ErrNoEntries", "err"}, order \in Orderings(LocalFollowers(follows)) :
         /\ res = "ErrNoEntries" => order = <<>>
         /\ Logged("GetAccountLocalFollowers", "", Origin, res)
         /\ IF Fatal(res)
              THEN ReturnFalse
              ELSE LoopAt(IF res = "ok" THEN order ELSE <<>>, 1)
    /\ UNCHANGED <<follows, follows0, outsideRedirect>>

GetAccountByID ==
    /\ rpc = "lookup"
    /\ \E res \in {"ok", "err"} :
         /\ Logged("GetAccountByID", rfollowers[ri].from, "", res)
         /\ IF Fatal(res)
              THEN ReturnFalse
              ELSE /\ rpc' = IF NeedsCreate(rfollowers[ri]) THEN "create" ELSE "remove"
                   /\ UNCHANGED <<rfollowers, ri, rret>>
    /\ UNCHANGED <<follows, follows0, outsideRedirect>>

\* FollowCreate with the two preferences of the old follow swapped.
FollowCreateSwapped ==
    /\ rpc = "create"
    /\ \E res \in {"ok", "err"} :
         /\ rfollowers[ri].from = Target => res = "err"
         /\ Logged("FollowCreate", rfollowers[ri].from, Target, res)
         /\ follows' = IF res = "ok"
                         THEN Created(follows, rfollowers[ri].from, Target,
                                      rfollowers[ri].notify, rfollowers[ri].reblogs)
                         ELSE follows
         /\ IF Fatal(res)
              THEN ReturnFalse
              ELSE rpc' = "remove" /\ UNCHANGED <<rfollowers, ri, rret>>
    /\ UNCHANGED <<follows0, outsideRedirect>>

\* A redirect that stores a new follow of the target itself, whether the
\* follower follows the target already or not.
FollowCreateAnew ==
    /\ rpc = "create"
    /\ \E res \in {"ok", "err"} :
         /\ rfollowers[ri].from = Target => res = "err"
         /\ Logged("FollowCreate", rfollowers[ri].from, Target, res)
         /\ follows' = IF res = "ok"
                         THEN CreatedAnew(follows, rfollowers[ri].from, Target,
                                          rfollowers[ri].reblogs, rfollowers[ri].notify)
                         ELSE follows
         /\ IF Fatal(res)
              THEN ReturnFalse
              ELSE rpc' = "remove" /\ UNCHANGED <<rfollowers, ri, rret>>
    /\ UNCHANGED <<follows0, outsideRedirect>>

\* account.FollowCreate(ctx, follow.Account, {ID: targetAcct.ID, Reblogs:
\* follow.ShowReblogs, Notify: follow.Notify}); a self follow is an error.
FollowCreate ==
    /\ rpc = "create"
    /\ \E res \in {"ok", "err"} :
         /\ rfollowers[ri].from = Target => res = "err"
         /\ Logged("FollowCreate", rfollowers[ri].from, Target, res)
         /\ follows' = IF res = "ok"
                         THEN Created(follows, rfollowers[ri].from, Target,
                                      rfollowers[ri].reblogs, rfollowers[ri].notify)
                         ELSE follows
         /\ IF Fatal(res)
              THEN ReturnFalse
              ELSE rpc' = "remove" /\ UNCHANGED <<rfollowers, ri, rret>>
    /\ UNCHANGED <<follows0, outsideRedirect>>

\* account.FollowRemove(ctx, follow.Account, follow.TargetAccountID)
FollowRemove ==
    /\ rpc = "remove"
    /\ \E res \in {"ok", "err"} :
         /\ Logged("FollowRemove", rfollowers[ri].from, rfollowers[ri].to, res)
         /\ follows' = IF res = "ok"
                         THEN Removed(follows, rfollowers[ri].from, rfollowers[ri].to)
                         ELSE follows
         /\ IF Fatal(res)
              THEN ReturnFalse
              ELSE LoopAt(rfollowers, ri + 1)
    /\ UNCHANGED <<follows0, outsideRedirect>>

\* No redirectFollowers call is made.
RedirectOff ==
    /\ follows = {} /\ follows0 = {} /\ rpc = "off" /\ rfollowers = <<>>
    /\ ri = 0 /\ rlog = <<>> /\ rret = "none"

Prefs == [reblogs : BOOLEAN, notify : BOOLEAN]

\* A store of follows: any of B, F1, F2 follows the origin with any
\* preferences, the remote R may follow it, and F1, F2 may follow the target
\* already (showing reblogs, without notifications).
FollowStores ==
    {  {[id |-> 1, from |-> "B", to |-> Origin, reblogs |-> p.reblogs, notify |-> p.notify] :
            p \in pb}
       \cup {[id |-> 2, from |-> "F1", to |-> Origin, reblogs |-> p.reblogs, notify |-> p.notify] :
            p \in p1}
       \cup {[id |-> 3, from |-> "F2", to |-> Origin, reblogs |-> p.reblogs, notify |-> p.notify] :
            p \in p2}
       \cup {[id |-> 4, from |-> "R", to |-> Origin, reblogs |-> TRUE, notify |-> FALSE] :
            x \in r}
       \cup {[id |-> 5, from |-> x, to |-> Target, reblogs |-> TRUE, notify |-> FALSE] :
            x \in t1}
       \cup {[id |-> 6, from |-> x, to |-> Target, reblogs |-> TRUE, notify |-> FALSE] :
            x \in t2}
       : pb \in {q \in SUBSET Prefs : Cardinality(q) <= 1},
         p1 \in {q \in SUBSET Prefs : Cardinality(q) <= 1},
         p2 \in {q \in SUBSET Prefs : Cardinality(q) <= 1},
         r \in SUBSET {"R"}, t1 \in SUBSET {"F1"}, t2 \in SUBSET {"F2"} }

\* redirectFollowers(ctx, originAcct, targetAcct) is called.
RedirectInit ==
    /\ follows \in FollowStores
    /\ follows0 = follows
    /\ rpc = "start" /\ rfollowers = <<>> /\ ri = 0 /\ rlog = <<>> /\ rret = "none"

redirectFollowers ==
    \/ GetAccountLocalFollowers
    \/ GetAccountByID
    \/ FollowCreate
    \/ FollowRemove

(***************************************************************************)
(* approveFave, approveReply, approveAnnounce.                             *)
(***************************************************************************)
Faves == {"fave"}
Replies == {"reply"}
Boosts == {"boost"}
Subjects == Faves \cup Replies \cup Boosts

NoURI == [user |-> "", id |-> 0]

\* uris.GenerateURIForAccept(username, id): derived from the approver's
\* identity and the new identifier.
GenerateURIForAccept(username, id) == [user |-> username, id |-> id]

\* id.NewULID(): a new, globally unique identifier; n IDs were made before.
NewULID(n) == n + 1

\* The account names are the accounts' usernames.
Username(account) == account

\* The *gtsmodel.StatusFave / *gtsmodel.Status a call comes with: the stored
\* row of the subject, as its caller fetched it; pre is its PreApproved flag.
InMemory(s, pre) ==
    IF s \in Faves
      THEN [ID |-> s, Account |-> "alice", TargetAccount |-> "bob", URI |-> "uri:fave",
            PendingApproval |-> subjects[s].pending_approval, PreApproved |-> pre,
            ApprovedByURI |-> subjects[s].approved_by_uri]
    ELSE IF s \in Replies
      THEN [ID |-> s, Account |-> "carol", InReplyToAccount |-> "bob",
            BoostOfAccount |-> "", URI |-> "uri:reply",
            PendingApproval |-> subjects[s].pending_approval, PreApproved |-> pre,
            ApprovedByURI |-> subjects[s].approved_by_uri]
      ELSE [ID |-> s, Account |-> "dave", InReplyToAccount |-> "",
            BoostOfAccount |-> "erin", URI |-> "uri:boost",
            PendingApproval |-> subjects[s].pending_approval, PreApproved |-> pre,
            ApprovedByURI |-> subjects[s].approved_by_uri]

NoApproval == [ID |-> 0, Account |-> "", InteractingAccount |-> "",
               InteractionURI |-> "", InteractionType |-> "", URI |-> NoURI]

NoSubject == [ID |-> "none"]

NoApproveCall == [subject |-> "none", before |-> NoSubject, sub |-> NoSubject,
                  approval |-> NoApproval, ret |-> NoApproval, err |-> "none"]

\* The call of worker w returns (ret, err).
Returned(w, call, ret, err) ==
    /\ apc' = [apc EXCEPT ![w] = "idle"]
    /\ acall' = [acall EXCEPT ![w] = [call EXCEPT !.ret = ret, !.err = err]]
    /\ adone' = Append(adone, [w |-> w, subject |-> call.subject,
                               approval |-> call.approval, err |-> err])

\* A PutInteractionApproval whose error is dropped: the call goes on.
PutIgnoringError(w, subject, approval) ==
    /\ nid' = nid + 1
    /\ \E ok \in BOOLEAN :
         /\ approvals' = IF ok THEN approvals \cup {approval} ELSE approvals
         /\ apc' = [apc EXCEPT ![w] = "update"]
         /\ acall' = [acall EXCEPT ![w] =
                         [NoApproveCall EXCEPT !.subject = subject.ID, !.before = subject,
                                               !.sub = subject, !.approval = approval]]
         /\ UNCHANGED adone
    /\ UNCHANGED <<subjects, outsideApprove>>

\* DB.PutInteractionApproval(ctx, approval) and the "if err != nil" after it:
\* the record is stored and the call goes on to mark the subject, or the call
\* returns (nil, err).
PutInteractionApproval(w, subject, approval) ==
    /\ nid' = nid + 1
    /\ \E ok \in BOOLEAN :
         LET call == [NoApproveCall EXCEPT !.subject = subject.ID, !.before = subject,
                                           !.sub = subject, !.approval = approval]
         IN  IF ok
               THEN /\ approvals' = approvals \cup {approval}
                    /\ apc' = [apc EXCEPT ![w] = "update"]
                    /\ acall' = [acall EXCEPT ![w] = call]
                    /\ UNCHANGED adone
               ELSE /\ approvals' = approvals
                    /\ Returned(w, call, NoApproval, "put")
    /\ UNCHANGED <<subjects, outsideApprove>>

\* Worker w is free to make a call.
Approving(w) ==
    /\ apc[w] = "idle"
    /\ Len(adone) + Cardinality({v \in Workers : apc[v] = "update"}) < MaxApprovals

\* approveFave giving the approval of a fave the ID that the fave's approval
\* got before, when there is one.
approveFaveSameID(w) ==
    /\ Approving(w)
    /\ \E s \in Faves, pre \in BOOLEAN :
         LET fave == InMemory(s, pre)
             earlier == {a \in approvals : a.InteractionURI = fave.URI}
             id == IF earlier = {} THEN NewULID(nid) ELSE (CHOOSE a \in earlier : TRUE).ID
             approval == [ID |-> id,
                          Account |-> fave.TargetAccount,
                          InteractingAccount |-> fave.Account,
                          InteractionURI |-> fave.URI,
                          InteractionType |-> "InteractionLike",
                          URI |-> GenerateURIForAccept(Username(fave.TargetAccount), id)]
         IN  PutInteractionApproval(w, fave, approval)

\* approveFave with the two accounts of the approval swapped.
approveFaveSwapped(w) ==
    /\ Approving(w)
    /\ \E s \in Faves, pre \in BOOLEAN :
         LET fave == InMemory(s, pre)
             id == NewULID(nid)
             approval == [ID |-> id,
                          Account |-> fave.Account,
                          InteractingAccount |-> fave.TargetAccount,
                          InteractionURI |-> fave.URI,
                          InteractionType |-> "InteractionLike",
                          URI |-> GenerateURIForAccept(Username(fave.TargetAccount), id)]
         IN  PutInteractionApproval(w, fave, approval)

approveFave(w) ==
    /\ Approving(w)
    /\ \E s \in Faves, pre \in BOOLEAN :
         LET fave == InMemory(s, pre)
             id == NewULID(nid)
             approval == [ID |-> id,
                          Account |-> fave.TargetAccount,
                          InteractingAccount |-> fave.Account,
                          InteractionURI |-> fave.URI,
                          InteractionType |-> "InteractionLike",
                          URI |-> GenerateURIForAccept(Username(fave.TargetAccount), id)]
         IN  PutInteractionApproval(w, fave, approval)

approveReply(w) ==
    /\ Approving(w)
    /\ \E s \in Replies, pre \in BOOLEAN :
         LET status == InMemory(s, pre)
             id == NewULID(nid)
             approval == [ID |-> id,
                          Account |-> status.InReplyToAccount,
                          InteractingAccount |-> status.Account,
                          InteractionURI |-> status.URI,
                          InteractionType |-> "InteractionReply",
                          URI |-> GenerateURIForAccept(Username(status.InReplyToAccount), id)]
         IN  PutInteractionApproval(w, status, approval)

\* The approval of a boost is built with InteractionType InteractionReply.
approveAnnounce(w) ==
    /\ Approving(w)
    /\ \E s \in Boosts, pre \in BOOLEAN :
         LET boost == InMemory(s, pre)
             id == NewULID(nid)
             approval == [ID |-> id,
                          Account |-> boost.BoostOfAccount,
                          InteractingAccount |-> boost.Account,
                          InteractionURI |-> boost.URI,
                          InteractionType |-> "InteractionReply",
                          URI |-> GenerateURIForAccept(Username(boost.BoostOfAccount), id)]
         IN  PutInteractionApproval(w, boost, approval)

\* "Mark the fave / status itself as now approved."
MarkApproved(subject, approval) ==
    [subject EXCEPT !.PendingApproval = FALSE,
                    !.PreApproved = FALSE,
                    !.ApprovedByURI = approval.URI]

\* DB.UpdateStatusFave / DB.UpdateStatus(ctx, subject, "pending_approval",
\* "approved_by_uri"): writes the two named columns of the row.
UpdateColumns(subject) ==
    [subjects EXCEPT ![subject.ID] = [pending_approval |-> subject.PendingApproval,
                                      approved_by_uri |-> subject.ApprovedByURI]]

\* An update that takes the stored approval back when it fails.
MarkAndUpdateRollback(w) ==
    LET marked == MarkApproved(acall[w].sub, acall[w].approval)
        call == [acall[w] EXCEPT !.sub = marked]
    IN  /\ \E ok \in BOOLEAN :
             IF ok
               THEN /\ subjects' = UpdateColumns(marked)
                    /\ approvals' = approvals
                    /\ Returned(w, call, call.approval, "nil")
               ELSE /\ subjects' = subjects
                    /\ approvals' = approvals \ {call.approval}
                    /\ Returned(w, call, NoApproval, "update")
        /\ UNCHANGED <<nid, outsideApprove>>

\* The second half of the three operations: the subject is marked approved,
\* its two columns are written, and the call returns (approval, nil), or
\* (nil, err) when the update failed.
MarkAndUpdate(w) ==
    LET marked == MarkApproved(acall[w].sub, acall[w].approval)
        call == [acall[w] EXCEPT !.sub = marked]
    IN  /\ \E ok \in BOOLEAN :
             IF ok
               THEN /\ subjects' = UpdateColumns(marked)
                    /\ Returned(w, call, call.approval, "nil")
               ELSE /\ subjects' = subjects
                    /\ Returned(w, call, NoApproval, "update")
        /\ UNCHANGED <<approvals, nid, outsideApprove>>

\* approveFave, from "Mark the fave itself as now approved" on.
UpdateStatusFave(w) ==
    /\ apc[w] = "update" /\ acall[w].subject \in Faves
    /\ MarkAndUpdate(w)

\* approveReply and approveAnnounce, from "Mark the status itself as now
\* approved" on.
UpdateStatus(w) ==
    /\ apc[w] = "update" /\ acall[w].subject \in Replies \cup Boosts
    /\ MarkAndUpdate(w)

\* Every fave and status waits for approval; no approve call was made yet.
ApproveInit ==
    /\ approvals = {}
    /\ subjects = [s \in Subjects |-> [pending_approval |-> TRUE, approved_by_uri |-> NoURI]]
    /\ apc = [w \in Workers |-> "idle"]
    /\ acall = [w \in Workers |-> NoApproveCall]
    /\ nid = 0
    /\ adone = <<>>

approve ==
    \E w \in Workers :
        \/ approveFave(w)
        \/ approveReply(w)
        \/ approveAnnounce(w)
        \/ UpdateStatusFave(w)
        \/ UpdateStatus(w)

(***************************************************************************)
(* The caller of redirectFollowers, which retries a failed run from        *)
(* scratch.                                                                *)
(***************************************************************************)
CallerOff == rtries = 0 /\ rabort = {}

\* redirectFollowers returned false: the caller calls it again with the same
\* two accounts.
Retry ==
    /\ rpc = "done" /\ rret = "false"
    /\ rtries < MaxRetries
    /\ rtries' = rtries + 1
    /\ rabort' = rabort \cup {rlog[Len(rlog)].call}
    /\ rpc' = "start" /\ rfollowers' = <<>> /\ ri' = 0 /\ rlog' = <<>> /\ rret' = "none"
    /\ UNCHANGED <<follows, follows0, counterVars, wipeVars, approveVars>>

\* At the start every stored counter holds the same value, zero or MaxInit.
\* o1 is account a1 and has no Stats yet; o2 is account a2 without Stats, or a
\* second copy of account a1, without Stats or loaded with them.
CounterInit ==
    /\ initial \in {0, MaxInit}
    /\ stored = [a \in Accts |-> Row(initial)]
    /\ \E a \in Accts, loaded \in BOOLEAN :
         /\ loaded => a = "a1"
         /\ acct = [o \in Objs |-> IF o = "o2" THEN a ELSE "a1"]
         /\ mem = [o \in Objs |-> IF o = "o2" /\ loaded THEN Row(initial) ELSE NoStats]
    /\ held = [k \in Keys |-> None]
    /\ pc = [w \in Workers |-> "idle"]
    /\ cur = [w \in Workers |-> NoCall]
    /\ hist = [a \in Accts |-> [f \in Fields |-> NoHist]]
    /\ used = [a \in Accts |-> [objs |-> {}, pre |-> FALSE]]
    /\ ncalls = 0
    /\ WipeOff
    /\ RedirectOff
    /\ CallerOff
    /\ ApproveInit

CounterNext ==
    \E w \in Workers :
        \/ Call(w)
        \/ Lock(w)
        \/ PopulateAccountStats(w)
        \/ incrementStatusesCount(w)
        \/ decrementStatusesCount(w)
        \/ incrementFollowersCount(w)
        \/ decrementFollowersCount(w)
        \/ incrementFollowingCount(w)
        \/ decrementFollowingCount(w)
        \/ incrementFollowRequestsCount(w)
        \/ decrementFollowRequestsCount(w)
        \/ Unlock(w)

CounterSpec == CounterInit /\ [][CounterNext]_vars

\* The steps of a worker that is inside an operation and holds the lock.
Running(w) ==
    \/ PopulateAccountStats(w)
    \/ incrementStatusesCount(w)
    \/ decrementStatusesCount(w)
    \/ incrementFollowersCount(w)
    \/ decrementFollowersCount(w)
    \/ incrementFollowingCount(w)
    \/ decrementFollowingCount(w)
    \/ incrementFollowRequestsCount(w)
    \/ decrementFollowRequestsCount(w)
    \/ Unlock(w)

\* Scheduling: a worker goroutine inside an operation goes on running, and a
\* goroutine blocked in Lock gets the mutex when it is released often enough.
CounterFairness ==
    \A w \in Workers : SF_vars(Lock(w)) /\ WF_vars(Running(w))

CounterFairSpec == CounterSpec /\ CounterFairness

CounterOff ==
    /\ initial = 0
    /\ acct = [o \in Objs |-> "a1"]
    /\ stored = [a \in Accts |-> Row(0)]
    /\ mem = [o \in Objs |-> NoStats]
    /\ held = [k \in Keys |-> None]
    /\ pc = [w \in Workers |-> "idle"]
    /\ cur = [w \in Workers |-> NoCall]
    /\ hist = [a \in Accts |-> [f \in Fields |-> NoHist]]
    /\ used = [a \in Accts |-> [objs |-> {}, pre |-> FALSE]]
    /\ ncalls = 0

WipeSpecInit == WipeInit /\ CounterOff /\ RedirectOff /\ CallerOff /\ ApproveInit
WipeSpec == WipeSpecInit /\ [][wipeStatus]_vars

RedirectSpecInit == RedirectInit /\ CounterOff /\ WipeOff /\ CallerOff /\ ApproveInit
RedirectSpec == RedirectSpecInit /\ [][redirectFollowers]_vars

\* redirectFollowers with a caller that retries the runs that fail.
RetryNext == redirectFollowers \/ Retry
RetrySpec == RedirectSpecInit /\ [][RetryNext]_vars

ApproveSpecInit == ApproveInit /\ CounterOff /\ WipeOff /\ RedirectOff /\ CallerOff
ApproveSpec == ApproveSpecInit /\ [][approve]_vars

(***************************************************************************)
(* Claims about the counters.                                              *)
(***************************************************************************)
InSection(w) == pc[w] \in {"populate", "update", "unlock"}
Settled(a) == \A w \in Workers : pc[w] = "idle" \/ ObjAcct(cur[w].obj) # a

\* The calls on account a came with one in-memory Account, or none of them
\* found the Stats of its Account populated already.
Coherent(a) == Cardinality(used[a].objs) <= 1 \/ ~used[a].pre

\* C1 as stated: once the calls on a counter have returned, all with success,
\* the stored counter is max(0, initial + increments - decrements).
C1_SettlesToClampedNet ==
    \A a \in Accts, f \in Fields :
        (Settled(a) /\ ~hist[a][f].failed)
            => stored[a][f] = Max0(initial + hist[a][f].net)

\* C1 amended: when the calls on a counter all succeeded and came with one
\* shared in-memory Account, or each with an Account whose Stats it had to
\* fetch, the stored counter is the value obtained by applying the calls one
\* after the other in lock order, every decrement floored at zero: no update
\* is lost.
C1_NoLostUpdate ==
    \A a \in Accts, f \in Fields :
        (~hist[a][f].failed /\ Coherent(a)) => stored[a][f] = hist[a][f].fold

C1_Witness ==
    \E a \in Accts, f \in Fields :
        /\ hist[a][f].n = 2
        /\ hist[a][f].net = 2
        /\ Cardinality(used[a].objs) = 2
        /\ ~used[a].pre
        /\ stored[a][f] = initial + 2
        /\ \A w \in Workers : pc[w] = "idle"

\* C2: every stored counter is >= 0 in every reachable state, and a
\* decrement applied to a counter that reads 0 stores 0.
C2_NonNegative ==
    /\ \A a \in Accts, f \in Fields : stored[a][f] >= 0
    /\ \A w \in Workers :
         (pc[w] = "unlock" /\ cur[w].ret = "nil" /\ cur[w].op \in DecOps /\ cur[w].read = 0)
            => stored[ObjAcct(cur[w].obj)][OpField(cur[w].op)] = 0

C2_Witness ==
    \E w \in Workers :
        /\ pc[w] = "unlock" /\ cur[w].ret = "nil" /\ cur[w].op \in DecOps
        /\ cur[w].read = 0
        /\ hist[ObjAcct(cur[w].obj)][OpField(cur[w].op)].net = -2
        /\ stored[ObjAcct(cur[w].obj)][OpField(cur[w].op)] = 0

\* C3: two workers are never inside the populate-modify-persist section for
\* the same account URI at once, and a worker is kept waiting for the lock
\* only while another worker is inside the section for the same URI.
C3_MutualExclusion ==
    /\ \A w1, w2 \in Workers :
         (w1 # w2 /\ InSection(w1) /\ InSection(w2))
            => URI(cur[w1].obj) # URI(cur[w2].obj)
    /\ \A w \in Workers :
         (pc[w] = "lock" /\ ~LockFree(LockKey(cur[w].obj)))
            => \E w2 \in Workers \ {w} :
                  InSection(w2) /\ URI(cur[w2].obj) = URI(cur[w].obj)

C3_Witness ==
    \E w1, w2 \in Workers :
        /\ pc[w1] = "update" /\ pc[w2] = "update"
        /\ URI(cur[w1].obj) # URI(cur[w2].obj)

(***************************************************************************)
(* Claims about the error paths, the frame and the lock of the counters.   *)
(***************************************************************************)
ReturnsError(w) == pc[w] \in {"populate", "update"} /\ pc'[w] = "unlock" /\ cur'[w].ret = "err"
ReturnsSuccess(w) == pc[w] = "update" /\ pc'[w] = "unlock" /\ cur'[w].ret = "nil"

\* C15 as stated: a call that returns an error leaves the stored counter and
\* the counter of its in-memory Stats as they were before it changed
\* anything (after population, when the Stats were fetched), so that a
\* successful call on an in-memory Account, the only one used for its
\* account, moves the stored counter by one step (a decrement at zero by
\* none).
C15_ErrorAppliesNothing ==
    [][\A w \in Workers :
          LET o == cur[w].obj
              a == ObjAcct(o)
              f == OpField(cur[w].op)
          IN  /\ ReturnsError(w) =>
                    /\ stored' = stored
                    /\ mem[o] # NoStats => mem'[o][f] = mem[o][f]
                    /\ mem[o] = NoStats => mem'[o] = NoStats
              /\ (ReturnsSuccess(w) /\ used[a].objs = {o}) =>
                    stored'[a][f] = Max0(stored[a][f] + OpDelta(cur[w].op))]_vars

C17_LockReleased ==
    /\ [](\A k \in Keys :
             held[k] # None =>
                 (InSection(held[k]) /\ LockKey(cur[held[k]].obj) = k))
    /\ \A w \in Workers : (pc[w] # "idle") ~> (pc[w] = "idle")

C17_Witness ==
    \E w \in Workers, f \in Fields :
        /\ pc[w] = "lock"
        /\ LockFree(LockKey(cur[w].obj))
        /\ hist[ObjAcct(cur[w].obj)][f].failed
        /\ \A v \in Workers \ {w} : pc[v] = "idle"

(***************************************************************************)
(* Claims about wipeStatus.                                                *)
(***************************************************************************)
Attempts(call, arg) ==
    Cardinality({i \in 1..Len(wlog) : wlog[i].call = call /\ wlog[i].arg = arg})
Attempted(call, arg) == Attempts(call, arg) >= 1
MediaCalls == {"media.Delete", "media.Unattach"}
MediaAttempts(id) ==
    Cardinality({i \in 1..Len(wlog) : wlog[i].call \in MediaCalls /\ wlog[i].arg = id})
Failed(call, arg) ==
    \E i \in 1..Len(wlog) : wlog[i].call = call /\ wlog[i].arg = arg /\ ~wlog[i].ok

\* The steps of the cascade that do not depend on the boost enumeration.
FixedStepsAttempted ==
    /\ \A id \in 1..wst.atts : MediaAttempts(id) >= 1
    /\ \A id \in 1..wst.mentions : Attempted("DeleteMentionByID", id)
    /\ Attempted("DeleteNotificationsForStatus", StatusID)
    /\ Attempted("DeleteStatusBookmarksForStatus", StatusID)
    /\ Attempted("DeleteStatusFavesForStatus", StatusID)
    /\ wst.poll => /\ Attempted("DeletePollByID", "poll")
                   /\ Attempted("DeletePollVotes", "poll")
    /\ Attempted("GetStatusBoosts", StatusID)
    /\ Attempted("deleteStatusFromTimelines", StatusID)
    /\ Attempted("DeleteStatusFromConversations", StatusID)
    /\ Attempted("DeleteStatusByID", StatusID)

BoostAttempted(b) ==
    Attempted("deleteStatusFromTimelines", b) /\ Attempted("DeleteStatusByID", b)

\* C4 as stated: whatever failed, a finished wipeStatus attempted every step,
\* the timeline removal and record deletion of every boost of the status
\* included.
C4_RunsEveryStep ==
    wpc = "done" => (FixedStepsAttempted /\ \A b \in 1..wst.boosts : BoostAttempted(b))

\* C4 amended: whatever failed, a finished wipeStatus attempted every step,
\* and the timeline removal and record deletion of every boost that the
\* boost enumeration returned: all boosts of the status when the enumeration
\* succeeded, none when it failed.
C4_RunsEveryStepOfFetchedBoosts ==
    wpc = "done" =>
        /\ FixedStepsAttempted
        /\ \A i \in 1..Len(wboosts) : BoostAttempted(wboosts[i])
        /\ ~Failed("GetStatusBoosts", StatusID) => \A b \in 1..wst.boosts : BoostAttempted(b)
        /\ Failed("GetStatusBoosts", StatusID) => \A b \in 1..wst.boosts : ~BoostAttempted(b)

C4_Witness ==
    /\ wpc = "done"
    /\ wst.atts = 2 /\ wst.mentions >= 1 /\ wst.poll /\ wst.boosts >= 1
    /\ ~wlog[1].ok
    /\ Failed("DeletePollByID", "poll")
    /\ ~Failed("GetStatusBoosts", StatusID)
    /\ BoostAttempted(1)

\* The annotation wipeStatus gives the failure of a call.
Note(e) ==
    CASE e.call = "media.Delete" -> "error deleting media"
      [] e.call = "media.Unattach" -> "error unattaching media"
      [] e.call = "DeleteMentionByID" -> "error deleting status mention"
      [] e.call = "DeleteNotificationsForStatus" -> "error deleting status notifications"
      [] e.call = "DeleteStatusBookmarksForStatus" -> "error deleting status bookmarks"
      [] e.call = "DeleteStatusFavesForStatus" -> "error deleting status faves"
      [] e.call = "DeletePollByID" -> "error deleting status poll"
      [] e.call = "DeletePollVotes" -> "error deleting status poll votes"
      [] e.call = "GetStatusBoosts" -> "error fetching status boosts"
      [] e.call = "deleteStatusFromTimelines" /\ e.arg = StatusID
            -> "error deleting status from timelines"
      [] e.call = "deleteStatusFromTimelines" -> "error deleting boost from timelines"
      [] e.call = "DeleteStatusFromConversations" -> "error deleting status from conversations"
      [] e.call = "DeleteStatusByID" /\ e.arg = StatusID -> "error deleting status"
      [] e.call = "DeleteStatusByID" -> "error deleting boost"
      [] OTHER -> "unreported"

IsReported(e) == ~e.ok /\ e.call # "Scheduler.Cancel"
ReportedFailures == SelectSeq(wlog, IsReported)

\* C5: errs holds one annotated entry per failed call other than the
\* scheduler cancellation, in call order, and wipeStatus returns nil exactly
\* when no such call failed.
C5_CombinedError ==
    /\ werrs = [i \in 1..Len(ReportedFailures) |-> Note(ReportedFailures[i])]
    /\ wpc = "done" => (wret = "nil" <=> ReportedFailures = <<>>)
    /\ wpc = "done" => wret \in {"nil", "err"}

C5_Witness ==
    /\ wpc = "done"
    /\ Failed("Scheduler.Cancel", "poll")
    /\ Failed("DeleteStatusByID", 1)
    /\ werrs = <<"error deleting boost">>
    /\ wret = "err"

\* C6: when no collaborator call failed, a finished wipeStatus has handled
\* every attachment, the mentions, poll, votes, notifications, bookmarks and
\* favourites are gone, every boost record and the status record are
\* deleted, timeline removal was issued for exactly the boosts and the
\* status, and the result is nil.
C6_FullCascade ==
    (wpc = "done" /\ nfail = 0) =>
        /\ \A id \in 1..wst.atts :
              db.media[id] = IF wst.del THEN "deleted" ELSE "unattached"
        /\ db.mentions = {}
        /\ ~db.poll /\ ~db.votes
        /\ ~db.notifications /\ ~db.bookmarks /\ ~db.faves
        /\ db.statuses = {}
        /\ db.timeline = {}
        /\ \A b \in 0..wst.boosts : Attempts("deleteStatusFromTimelines", b) = 1
        /\ Cardinality({i \in 1..Len(wlog) : wlog[i].call = "deleteStatusFromTimelines"})
              = wst.boosts + 1
        /\ wret = "nil"

C6_Witness ==
    /\ wpc = "done" /\ nfail = 0
    /\ wst.atts = 2 /\ wst.mentions = 2 /\ wst.poll /\ wst.boosts = 2
    /\ db.statuses = {}
    /\ wret = "nil"

\* C7: every media request of a call is of the kind the flag selects
\* (deletion when attachments are to be deleted, unattaching otherwise), no
\* attachment gets more than one request, and once the attachments are
\* passed every attachment ID got exactly one, failures or not.
C7_AttachmentRequests ==
    /\ \A i \in 1..Len(wlog) :
          wlog[i].call \in MediaCalls =>
              wlog[i].call = IF wst.del THEN "media.Delete" ELSE "media.Unattach"
    /\ \A id \in 1..wst.atts : MediaAttempts(id) <= 1
    /\ wpc \notin {"off", "attachments"} => \A id \in 1..wst.atts : MediaAttempts(id) = 1

C7_Witness ==
    /\ wst.atts = 2 /\ ~wst.del
    /\ wpc = "notifications"
    /\ Failed("media.Unattach", 1)
    /\ Attempted("media.Unattach", 2)
    /\ db.media[2] = "unattached"

(***************************************************************************)
(* Claims about the order of the calls of wipeStatus.                      *)
(***************************************************************************)
IsLogged(i, call, arg) == wlog[i].call = call /\ wlog[i].arg = arg
IsBoostCall(i) ==
    /\ wlog[i].call \in {"deleteStatusFromTimelines", "DeleteStatusByID"}
    /\ wlog[i].arg # StatusID

\* The order of the calls on the boosts and on the status itself.
WipeOrder ==
    /\ \A i \in 1..Len(wlog) :
          (wlog[i].call = "DeleteStatusByID" /\ wlog[i].arg # StatusID) =>
              /\ i > 1
              /\ IsLogged(i - 1, "deleteStatusFromTimelines", wlog[i].arg)
    /\ \A i, j \in 1..Len(wlog) :
          (IsBoostCall(i) /\ IsLogged(j, "deleteStatusFromTimelines", StatusID)) => i < j
    /\ \A j \in 1..Len(wlog) :
          IsLogged(j, "DeleteStatusFromConversations", StatusID) =>
              /\ j > 1
              /\ IsLogged(j - 1, "deleteStatusFromTimelines", StatusID)
    /\ \A j \in 1..Len(wlog) :
          IsLogged(j, "DeleteStatusByID", StatusID) =>
              /\ j > 1
              /\ IsLogged(j - 1, "DeleteStatusFromConversations", StatusID)
              /\ j = Len(wlog)
              /\ wpc = "done"
    /\ wpc = "done" => IsLogged(Len(wlog), "DeleteStatusByID", StatusID)

\* C18 as stated: the calls come in that order, and the deletion of the
\* status record, the last call, comes after the attempt of every dependent
\* deletion, those of every boost of the status included.
C18_OrderAfterEveryDependent ==
    /\ WipeOrder
    /\ wpc = "done" =>
          /\ FixedStepsAttempted
          /\ \A b \in 1..wst.boosts : BoostAttempted(b)

\* C18 amended: each boost's timeline removal is attempted right before that
\* boost's record deletion; all boost calls precede the status's timeline
\* removal, which is followed by its conversation-index removal, which is
\* followed by the deletion of the status record, the last call of the run;
\* by then every other step was attempted, with the two calls of every boost
\* that the boost enumeration returned.
C18_OrderAfterFetchedDependents ==
    /\ WipeOrder
    /\ wpc = "done" =>
          /\ FixedStepsAttempted
          /\ \A i \in 1..Len(wboosts) : BoostAttempted(wboosts[i])
          /\ \A i \in 1..(Len(wlog) - 1) : ~IsLogged(i, "DeleteStatusByID", StatusID)

C18_Witness ==
    /\ wpc = "done"
    /\ wst.boosts = 2 /\ Len(wboosts) = 2
    /\ Failed("deleteStatusFromTimelines", 1)
    /\ Attempted("DeleteStatusByID", 1) /\ Attempted("DeleteStatusByID", 2)
    /\ Failed("deleteStatusFromTimelines", StatusID)
    /\ IsLogged(Len(wlog), "DeleteStatusByID", StatusID)

(***************************************************************************)
(* Claims about redirectFollowers.                                         *)
(***************************************************************************)
InitialLocalFollowers == {f.from : f \in LocalFollowers(follows0)}
OldFollow(F) == CHOOSE f \in follows0 : f.from = F /\ f.to = Origin
FollowsOf(fs, F, T) == {f \in fs : f.from = F /\ f.to = T}
NoFailure == \A i \in 1..Len(rlog) : rlog[i].res # "err"
IsCall(e, call, from, to) == e.call = call /\ e.from = from /\ e.to = to

\* C8: a redirectFollowers run without failure returns true, and then every
\* local follower of A other than B has exactly one follow of B, with the
\* preferences of its follow of A (the follow it had of B before, updated,
\* when it had one), and no local account follows A any more.
C8_FollowersRedirected ==
    (rpc = "done" /\ NoFailure) =>
        /\ rret = "true"
        /\ \A F \in InitialLocalFollowers \ {Target} :
              /\ Cardinality(FollowsOf(follows, F, Target)) = 1
              /\ \A f \in FollowsOf(follows, F, Target) :
                    /\ f.reblogs = OldFollow(F).reblogs
                    /\ f.notify = OldFollow(F).notify
                    /\ \A g \in FollowsOf(follows0, F, Target) : g.id = f.id
        /\ \A F \in Local : FollowsOf(follows, F, Origin) = {}

C8_Witness ==
    /\ rpc = "done" /\ NoFailure /\ rret = "true"
    /\ InitialLocalFollowers = {"B", "F1", "F2"}
    /\ FollowsOf(follows0, "F1", Target) # {} /\ FollowsOf(follows0, "F2", Target) = {}
    /\ OldFollow("F1").notify /\ ~OldFollow("F1").reblogs
    /\ \E f \in FollowsOf(follows, "F1", Target) : f.notify /\ ~f.reblogs
    /\ FollowsOf(follows, "F2", Target) # {}

\* C9: no run, finished or aborted, asks for a follow from the target to
\* itself; when the loop gets to the target's own follow of the origin, the
\* call that follows the account lookup is the retraction of that follow,
\* and after a run that returned true the target no longer follows the
\* origin.
C9_NoSelfFollow ==
    /\ \A i \in 1..Len(rlog) :
          rlog[i].call = "FollowCreate" => (rlog[i].from # Target /\ rlog[i].from # rlog[i].to)
    /\ \A i \in 1..Len(rlog) :
          (IsCall(rlog[i], "GetAccountByID", Target, "") /\ rlog[i].res = "ok") =>
              IF i < Len(rlog)
                THEN IsCall(rlog[i + 1], "FollowRemove", Target, Origin)
                ELSE rpc = "remove"
    /\ (rret = "true" /\ Target \in InitialLocalFollowers) =>
          /\ \E i \in 1..Len(rlog) :
                IsCall(rlog[i], "FollowRemove", Target, Origin) /\ rlog[i].res = "ok"
          /\ FollowsOf(follows, Target, Origin) = {}

C9_Witness ==
    /\ rret = "true"
    /\ InitialLocalFollowers = {"B", "F1"}
    /\ FollowsOf(follows, Target, Origin) = {}
    /\ \E i \in 1..Len(rlog) : IsCall(rlog[i], "FollowRemove", Target, Origin)
    /\ \E i \in 1..Len(rlog) : IsCall(rlog[i], "FollowCreate", "F1", Target)

\* C10: redirectFollowers is fail-fast. A failed call is the last call made
\* and the run has returned false; the run returns true only when no call
\* failed and false only when one did; and the old follow of a follower other
\* than the target is retracted only right after the creation of its new
\* follow of the target has succeeded.
C10_FailFast ==
    /\ \A i \in 1..Len(rlog) :
          rlog[i].res = "err" => (i = Len(rlog) /\ rpc = "done" /\ rret = "false")
    /\ rpc = "done" => (rret = "true" <=> NoFailure)
    /\ rpc = "done" => rret \in {"true", "false"}
    /\ rpc # "done" => rret = "none"
    /\ \A i \in 1..Len(rlog) :
          (rlog[i].call = "FollowRemove" /\ rlog[i].from # Target) =>
              /\ i > 1
              /\ IsCall(rlog[i - 1], "FollowCreate", rlog[i].from, Target)
              /\ rlog[i - 1].res = "ok"

C10_Witness ==
    /\ rpc = "done" /\ rret = "false"
    /\ Cardinality(InitialLocalFollowers) = 3
    /\ Len(rlog) = 6
    /\ rlog[6].call = "FollowCreate" /\ rlog[6].res = "err"
    /\ rlog[4].call = "FollowRemove" /\ rlog[4].res = "ok"
    /\ Cardinality(LocalFollowers(follows)) = 2

(***************************************************************************)
(* Claims about retrying redirectFollowers.                                *)
(***************************************************************************)
Edge(f) == [from |-> f.from, to |-> f.to, reblogs |-> f.reblogs, notify |-> f.notify]
Edges(fs) == {Edge(f) : f \in fs}

\* The follows a run without failure leaves, from the store fs with the
\* follows todo still to redirect.
RECURSIVE FailureFreeRun(_, _)
FailureFreeRun(fs, todo) ==
    IF todo = {}
      THEN fs
      ELSE LET follow == CHOOSE f \in todo : TRUE
               created == IF NeedsCreate(follow)
                            THEN Created(fs, follow.from, Target, follow.reblogs, follow.notify)
                            ELSE fs
           IN  FailureFreeRun(Removed(created, follow.from, follow.to), todo \ {follow})

\* C19: when a run returns true, after any number of runs that were aborted
\* and retried from scratch, the follows and their preferences are those a
\* single run without failure gives from the original store; nobody has two
\* follows of B, and no local account follows A.
C19_RetryConverges ==
    (rpc = "done" /\ rret = "true") =>
        /\ Edges(follows) = Edges(FailureFreeRun(follows0, LocalFollowers(follows0)))
        /\ Cardinality(follows) = Cardinality(Edges(follows))
        /\ \A F \in Local \cup {"R"} : Cardinality(FollowsOf(follows, F, Target)) <= 1
        /\ \A F \in Local : FollowsOf(follows, F, Origin) = {}

C19_Witness ==
    /\ rpc = "done" /\ rret = "true"
    /\ rtries >= 1
    /\ "FollowRemove" \in rabort
    /\ InitialLocalFollowers = {"B", "F1", "F2"}
    /\ FollowsOf(follows0, "F1", Target) = {} /\ FollowsOf(follows0, "F2", Target) # {}
    /\ Cardinality(FollowsOf(follows, "F1", Target)) = 1
    /\ Cardinality(FollowsOf(follows, "F2", Target)) = 1
    /\ \A F \in Local : FollowsOf(follows, F, Origin) = {}

(***************************************************************************)
(* Claims about approveFave, approveReply, approveAnnounce.                *)
(***************************************************************************)
\* Who made each interaction, whom it is with, and its URI.
Interacting == [fave |-> "alice", reply |-> "carol", boost |-> "dave"]
InteractedWith == [fave |-> "bob", reply |-> "bob", boost |-> "erin"]
SubjectURI == [fave |-> "uri:fave", reply |-> "uri:reply", boost |-> "uri:boost"]
KindTag == [fave |-> "InteractionLike", reply |-> "InteractionReply",
            boost |-> "InteractionAnnounce"]

PutSucceeded(e) == e.err # "put"
Approved(e) == e.err = "nil"

\* C11: a call that returned success returned an approval whose Account is
\* the account interacted with, whose InteractingAccount is the account that
\* made the interaction and whose InteractionURI is the URI of the subject,
\* and it left its subject with PendingApproval false, PreApproved false and
\* ApprovedByURI the URI of that approval.
C11_ApprovalContents ==
    \A w \in Workers :
        acall[w].err = "nil" =>
            /\ acall[w].ret # NoApproval
            /\ acall[w].ret.Account = InteractedWith[acall[w].subject]
            /\ acall[w].ret.InteractingAccount = Interacting[acall[w].subject]
            /\ acall[w].ret.InteractionURI = SubjectURI[acall[w].subject]
            /\ acall[w].sub.PendingApproval = FALSE
            /\ acall[w].sub.PreApproved = FALSE
            /\ acall[w].sub.ApprovedByURI = acall[w].ret.URI
            /\ acall[w].ret.URI # NoURI

C11_Witness ==
    \E w, v \in Workers :
        /\ acall[w].err = "nil" /\ acall[w].subject = "fave"
        /\ acall[w].before.PreApproved /\ acall[w].before.PendingApproval
        /\ acall[w].ret.Account = "bob" /\ acall[w].ret.InteractingAccount = "alice"
        /\ acall[v].err = "nil" /\ acall[v].subject = "boost"
        /\ acall[v].ret.Account = "erin"
        /\ \E e \in {adone[i] : i \in 1..Len(adone)} : Approved(e) /\ e.subject = "reply"

\* C12 as stated: the InteractionType of every stored approval is the tag of
\* the kind of its subject (Like for the fave, Reply for the reply, Announce
\* for the boost), so approvals of subjects of different kinds have different
\* tags.
C12_TagMatchesSubject ==
    /\ \A a \in approvals, s \in Subjects :
          a.InteractionURI = SubjectURI[s] => a.InteractionType = KindTag[s]
    /\ \A a, b \in approvals :
          a.InteractionURI # b.InteractionURI => a.InteractionType # b.InteractionType

\* C13: a call whose PutInteractionApproval fails returns an error and no
\* approval, leaves its subject as it was and the store as it was; a call
\* whose subject update fails returns an error and no approval, and the
\* approval it stored stays in the store.
C13_NoCompensation ==
    [][\A w \in Workers :
          /\ (acall'[w] # acall[w] /\ acall'[w].err = "put") =>
                /\ acall'[w].ret = NoApproval
                /\ acall'[w].sub = acall'[w].before
                /\ acall'[w].approval \notin approvals'
                /\ approvals' = approvals
                /\ subjects' = subjects
          /\ (acall'[w] # acall[w] /\ acall'[w].err = "update") =>
                /\ acall'[w].ret = NoApproval
                /\ acall'[w].approval \in approvals'
                /\ approvals' = approvals
                /\ subjects' = subjects]_vars

C13_Witness ==
    \E w, v \in Workers :
        /\ acall[w].err = "put" /\ acall[w].ret = NoApproval
        /\ acall[w].approval \notin approvals
        /\ acall[v].err = "update" /\ acall[v].ret = NoApproval
        /\ acall[v].approval \in approvals
        /\ subjects[acall[v].subject].pending_approval

\* C14: every call whose PutInteractionApproval succeeded added one record of
\* its own to the store, records differ in ID and URI, and the stored
\* approved_by_uri of a subject is the URI of the approval of the successful
\* call on it that came last.
C14_NotIdempotent ==
    /\ Cardinality(approvals) =
          Cardinality({i \in 1..Len(adone) : PutSucceeded(adone[i])})
            + Cardinality({w \in Workers : apc[w] = "update"})
    /\ \A a, b \in approvals : a # b => (a.ID # b.ID /\ a.URI # b.URI)
    /\ \A i \in 1..Len(adone) :
          Approved(adone[i]) =>
              /\ adone[i].approval \in approvals
              /\ (\A j \in (i + 1)..Len(adone) :
                     ~(Approved(adone[j]) /\ adone[j].subject = adone[i].subject))
                    => subjects[adone[i].subject].approved_by_uri = adone[i].approval.URI

C14_Witness ==
    \E i, j \in 1..Len(adone) :
        /\ i < j
        /\ adone[i].w = adone[j].w
        /\ adone[i].subject = "fave" /\ adone[j].subject = "fave"
        /\ Approved(adone[i]) /\ Approved(adone[j])
        /\ {adone[i].approval, adone[j].approval} \subseteq approvals
        /\ adone[i].approval.ID # adone[j].approval.ID
        /\ adone[i].approval.URI # adone[j].approval.URI
        /\ subjects["fave"].approved_by_uri = adone[j].approval.URI

\* C20: in every reachable state a subject whose stored pending_approval is
\* cleared, or whose stored approved_by_uri is set, has as approved_by_uri the
\* URI of an approval record of that subject that is in the store.
C20_ClearedHasStoredApproval ==
    \A s \in Subjects :
        (~subjects[s].pending_approval \/ subjects[s].approved_by_uri # NoURI) =>
            \E a \in approvals :
                /\ a.URI = subjects[s].approved_by_uri
                /\ a.InteractionURI = SubjectURI[s]

C20_Witness ==
    \E s \in Subjects, w \in Workers :
        /\ ~subjects[s].pending_approval
        /\ apc[w] = "update" /\ acall[w].subject = s
        /\ acall[w].approval.URI # subjects[s].approved_by_uri
        /\ \E i \in 1..Len(adone) : adone[i].subject = s /\ adone[i].err = "put"

====
